---- MODULE Spec2Model ----
(***************************************************************************)
(* RefBook web client (frontend/src): the project-based App component with *)
(* its ResourcePanel and ChatPanel children, and the SharedChat page.      *)
(* The HTTP backend is not part of the frontend sources; it is modelled    *)
(* from the specification (sections 4.1, 4.5, 4.6) as the environment the  *)
(* client talks to.  Every fetch is a call record that is first sent, then *)
(* served by the backend (which fixes the response), then delivered to the *)
(* awaiting continuation, so responses may be stale and may overtake each  *)
(* other.                                                                  *)
(***************************************************************************)
EXTENDS Integers, Sequences, FiniteSets, Bags, TLC

\* ------------------------------------------------------------------ bounds
\* number of user gestures (clicks, submits) explored on the App page
MaxUserOps == 2
\* longest chat transcript explored on either page
MaxMsgs == 4
\* most chunks a pipeline run produces for one resource
MaxChunks == 2
\* longest time, in ms, a toast is followed after it was added
MaxToastAge == 6000
\* how far below 0 and above 1 the scores explored lie, in units of 1/ScoreDen
MaxOutside == 60

\* ------------------------------------------------------------- value sets
ProjectIds == {"p1", "p2"}
ResourceIds == {"r1", "r2", "r3"}
\* creation order of the resources on the backend (list order of responses)
ResourceOrder == <<"r1", "r2", "r3">>
Contents == {"q1", "q2"}
Null == "null"
\* a resource id the backend has not created yet / has deleted
NoRes == [project_id |-> Null, status |-> "absent"]
Gone == [project_id |-> Null, status |-> "deleted"]
\* the chunk set of a resource in the Embedding Index: the pipeline run that
\* wrote it and the number of its chunks; NoChunks when it holds none
NoChunks == [version |-> 0, chunks |-> 0]
\* the project the share session of the shared page belongs to
ShareProject == "p1"
\* useState<ShareInfo | null>(null)
NoShareInfo == [loaded |-> FALSE, resources |-> <<>>]
\* the delay of ToastItem's setTimeout, and the step of the clock (the delay
\* of a status poll), in ms
ToastMs == 4000
TickMs == 2000
\* scores are the fractions n / ScoreDen: steps of 0.005, so that 100 * score
\* takes the values k and k + 0.5
ScoreDen == 200
Scores == (0 - MaxOutside)..(ScoreDen + MaxOutside)

VARIABLES
    \* ---- backend (environment)
    bProjects,          \* sequence of project ids, list order
    bResources,         \* resource id -> [project_id, status] or NoRes
    bShare,             \* TRUE while the share session of the shared page exists
    bCreated,           \* projects with a share session created from the modal
    bChunkCount,        \* resource id -> chunk_count of the Resource
    bIndex,             \* resource id -> its chunk set in the Embedding Index
    \* ---- App state (useState hooks of App.tsx)
    projects, currentProject, projectsLoading,
    resources, selectedResources,
    messages, isLoading,
    error, toasts,
    \* ---- ResourcePanel state
    isAdding, refreshingIds, deletingIds,
    \* ---- ShareModal state (showShareModal is App's)
    showShareModal, isCreating, shareResult, shareModalError,
    \* ---- SharedChat state
    shareInfo, sharedMessages, sharedIsLoading, sharedError, initialLoading,
    \* ---- asynchronous calls in flight (fetches and timers with closures)
    calls,
    \* ---- history
    ops,                \* user gestures so far
    deleted,            \* resources whose delete succeeded on the client
    \* ---- ToastItem timers, per toast shown
    toastAge,           \* ms since addToast put it on the list
    toastLeft,          \* ms left on the setTimeout of its effect
    \* ---- a SourceCard under an answer
    score,              \* source.score, in units of 1/ScoreDen
    relevance           \* <<the percentage it displays>>, <<>> before it renders

backendVars == <<bProjects, bResources, bShare, bCreated, bChunkCount,
                 bIndex>>
appVars == <<projects, currentProject, projectsLoading, resources,
             selectedResources, messages, isLoading, error, toasts>>
panelVars == <<isAdding, refreshingIds, deletingIds>>
sharedVars == <<shareInfo, sharedMessages, sharedIsLoading, sharedError,
                initialLoading>>
modalVars == <<showShareModal, isCreating, shareResult, shareModalError>>
toastVars == <<toastAge, toastLeft>>
cardVars == <<score, relevance>>
vars == <<backendVars, appVars, panelVars, sharedVars, modalVars, calls, ops,
          deleted, toastVars, cardVars>>

\* ------------------------------------------------------------ sequences
RECURSIVE SelectSeqBy(_, _)
\* Array.prototype.filter on a sequence of records, keeping ids in `keep`
SelectSeqBy(s, keep) ==
    IF s = <<>> THEN <<>>
    ELSE IF Head(s).id \in keep
         THEN <<Head(s)>> \o SelectSeqBy(Tail(s), keep)
         ELSE SelectSeqBy(Tail(s), keep)

RECURSIVE FilterOut(_, _)
\* prev.filter(x => x !== id) on a sequence of plain ids
FilterOut(s, id) ==
    IF s = <<>> THEN <<>>
    ELSE IF Head(s) = id THEN FilterOut(Tail(s), id)
         ELSE <<Head(s)>> \o FilterOut(Tail(s), id)

Range(s) == {s[i] : i \in 1..Len(s)}
Ids(rs) == {rs[i].id : i \in 1..Len(rs)}

\* data.find(r => r.id === resourceId): the first match, or NoRes
Find(rs, id) ==
    IF \E i \in 1..Len(rs) : rs[i].id = id
    THEN rs[CHOOSE i \in 1..Len(rs) :
                rs[i].id = id /\ \A j \in 1..(i - 1) : rs[j].id # id]
    ELSE [id |-> id, project_id |-> Null, status |-> "absent"]

\* ---------------------------------------------------------------- backend
Resource(id) == [id |-> id, project_id |-> bResources[id].project_id,
                 status |-> bResources[id].status]

RECURSIVE ListFrom(_, _)
ListFrom(order, pid) ==
    IF order = <<>> THEN <<>>
    ELSE IF bResources[Head(order)].project_id = pid
         THEN <<Resource(Head(order))>> \o ListFrom(Tail(order), pid)
         ELSE ListFrom(Tail(order), pid)

\* list(project_id): the resources owned by the project, in creation order
ListResources(pid) == ListFrom(ResourceOrder, pid)

\* resolve_share: the ready resources of the share's project
ReadyOf(pid) ==
    SelectSeqBy(ListResources(pid),
                {r \in ResourceIds : bResources[r].status = "ready"})

\* ------------------------------------------------------------------ calls
\* A call is one asynchronous activity of the client: a fetch with the
\* continuation (closure) awaiting it, or a pending setTimeout.
\*   kind  which api function / handler      pid, rid  its closure's ids
\*   body  the JSON body of a chat request   st  timer, sent, ok or fail
\*   resp  the response once served
\*   seen  the `projects` state the closure captured (handleDeleteProject)
EmptyBody == [message |-> Null, has_ids |-> FALSE, resource_ids |-> <<>>,
              conversation_history |-> <<>>]
NoResp == [list |-> <<>>, projects |-> <<>>, answer |-> Null, sources |-> <<>>]

NewCall(kind, pid, rid, body, st) ==
    [kind |-> kind, pid |-> pid, rid |-> rid, body |-> body, st |-> st,
     resp |-> NoResp, seen |-> <<>>]

Fetch(kind, pid, rid) == NewCall(kind, pid, rid, EmptyBody, "sent")

\* calls is a bag: two equal calls in flight are two copies
InFlight == BagToSet(calls)
Without(cs, c) == cs (-) SetToBag({c})
\* the calls cs and, in addition, one copy of each call of the set S
cs ++ S == cs (+) SetToBag(S)

\* ------------------------------------------------------------------- Init
InitBackend ==
    /\ bProjects = <<"p1", "p2">>
    /\ bResources = [r \in ResourceIds |->
                        CASE r \in {"r1", "r2"} ->
                               [project_id |-> "p1", status |-> "ready"]
                          [] OTHER -> NoRes]
    /\ bCreated = {}
    /\ bChunkCount = [r \in ResourceIds |-> IF r \in {"r1", "r2"} THEN 1 ELSE 0]
    /\ bIndex = [r \in ResourceIds |->
                    IF r \in {"r1", "r2"} THEN [version |-> 1, chunks |-> 1]
                    ELSE NoChunks]

\* App(): the useState initial values, and the mount effect's loadProjects()
InitApp ==
    /\ projects = <<>> /\ currentProject = Null /\ projectsLoading = TRUE
    /\ resources = <<>> /\ selectedResources = <<>>
    /\ messages = <<>> /\ isLoading = FALSE
    /\ error = Null /\ toasts = {}
    /\ isAdding = FALSE /\ refreshingIds = {} /\ deletingIds = {}
    /\ showShareModal = FALSE /\ isCreating = FALSE
    /\ shareResult = Null /\ shareModalError = Null
    /\ toastAge = <<>> /\ toastLeft = <<>>

\* SharedChat(): the useState initial values
InitShared ==
    /\ shareInfo = NoShareInfo /\ sharedMessages = <<>> /\ sharedIsLoading = FALSE
    /\ sharedError = Null /\ initialLoading = TRUE

\* no SourceCard is on the page: the transcript is empty
NoCard == score = 0 /\ relevance = <<>>

\* the tab shows the App page: its mount effect has called loadProjects()
InitAppPage ==
    /\ InitBackend /\ InitApp /\ InitShared /\ NoCard
    /\ bShare = FALSE
    /\ calls = SetToBag({Fetch("fetchProjects", Null, Null)})
    /\ ops = 0 /\ deleted = {}

\* ------------------------------------------------------------------ toasts
\* App renders again when one of its state hooks got a new value (equal
\* values are taken as no update), and Toast and its ToastItems with it
AppRendered == appVars' # appVars \/ showShareModal' # showShareModal

\* ToastItem's useEffect(..., [onRemove]) over a step of the page.  Toast hands
\* every ToastItem a new `() => onRemove(toast.id)` each time it renders, so
\* the effect of every toast shown runs again: clearTimeout, then a new
\* setTimeout of ToastMs.  A toast that was not shown before is mounted
ToastTimers ==
    /\ toastAge' = [t \in toasts' |-> IF t \in toasts THEN toastAge[t] ELSE 0]
    /\ toastLeft' = [t \in toasts' |->
                       IF AppRendered \/ t \notin toasts THEN ToastMs
                       ELSE toastLeft[t]]

\* -------------------------------------------------------------------- App
\* useEffect(..., [currentProject?.id]) run by a setCurrentProject(newP);
\* `base` is the set of calls the rest of the handler leaves in flight.
ProjectChangeEffect(newP, base) ==
    /\ currentProject' = newP
    /\ IF newP = currentProject
       THEN /\ calls' = base
            /\ UNCHANGED <<resources, messages, selectedResources>>
       ELSE IF newP # Null
       THEN /\ calls' = base ++ {Fetch("loadResources", newP, Null)}
            /\ messages' = <<>>
            /\ selectedResources' = <<>>
            /\ UNCHANGED resources
       ELSE /\ calls' = base
            /\ resources' = <<>>
            /\ UNCHANGED <<messages, selectedResources>>

\* loadProjects() from `await fetchProjects()` on: `failed` when the fetch
\* threw, `data` its result otherwise; c.pid is the closure's currentProject
\* (Null when the closure saw none)
LoadProjectsContinue(c, failed, data) ==
    /\ projectsLoading' = FALSE
    /\ IF ~failed
       THEN /\ projects' = data
            /\ IF Len(data) > 0 /\ c.pid = Null
               THEN ProjectChangeEffect(data[1], Without(calls, c))
               ELSE /\ calls' = Without(calls, c)
                    /\ UNCHANGED <<currentProject, resources, messages,
                                   selectedResources>>
       ELSE /\ calls' = Without(calls, c)
            /\ UNCHANGED <<projects, currentProject, resources, messages,
                           selectedResources>>
    /\ UNCHANGED <<backendVars, isLoading, error, toasts, panelVars,
                   sharedVars, modalVars, ops, deleted,
                   cardVars>>
    /\ ToastTimers

\* the response of a served GET /api/projects reaches loadProjects()
LoadProjectsDone(c) ==
    /\ c \in InFlight /\ c.kind = "fetchProjects"
    /\ c.st \in {"ok", "fail"}
    /\ LoadProjectsContinue(c, c.st = "fail", c.resp.projects)

\* GET /api/projects served and its response delivered in one step: the same
\* behaviours as ServeFetchProjects then LoadProjectsDone wherever no action
\* changes bProjects in between
FetchProjectsRoundTrip(c) ==
    /\ c \in InFlight /\ c.kind = "fetchProjects"
    /\ c.st = "sent"
    /\ \E failed \in BOOLEAN : LoadProjectsContinue(c, failed, bProjects)

\* the ShareModal is rendered (and its backdrop covers the page) while a
\* project is current and showShareModal is set
ModalShown == showShareModal /\ currentProject # Null

\* handleSelectProject(project), from a row of the ProjectSelector dropdown
\* (the rows are rendered only while the list is not loading)
SelectProject(p) ==
    /\ ops < MaxUserOps
    /\ ~ModalShown
    /\ ~projectsLoading /\ p \in Range(projects)
    /\ ProjectChangeEffect(p, calls)
    /\ ops' = ops + 1
    /\ UNCHANGED <<backendVars, projects, projectsLoading, isLoading,
                   error, toasts, panelVars, sharedVars, modalVars, deleted,
                   cardVars>>
    /\ ToastTimers

\* ProjectSelector.handleDelete(projectId) -> App.handleDeleteProject, up to
\* the await: the confirm button of a project row.  The closure keeps the
\* currentProject (c.rid) and the projects (c.seen) of its render
ClickDeleteProject(p) ==
    /\ ops < MaxUserOps
    /\ ~ModalShown
    /\ ~projectsLoading /\ p \in Range(projects)
    /\ calls' = calls ++ {[Fetch("deleteProject", p, currentProject)
                              EXCEPT !.seen = projects]}
    /\ ops' = ops + 1
    /\ UNCHANGED <<backendVars, appVars, panelVars, sharedVars, modalVars,
                   deleted,
                   cardVars>>
    /\ ToastTimers

\* handleDeleteProject after `await deleteProject(projectId)`.  When the
\* deleted project was the closure's current one, the first remaining project
\* of the closure's list becomes current, or none: then the ShareModal is
\* unmounted and its state is lost
DeleteProjectDone(c) ==
    /\ c \in InFlight /\ c.kind = "deleteProject" /\ c.st \in {"ok", "fail"}
    /\ IF c.st = "ok"
       THEN LET remaining == FilterOut(c.seen, c.pid)
                newP == IF c.rid # c.pid THEN currentProject
                        ELSE IF Len(remaining) > 0 THEN remaining[1]
                        ELSE Null
            IN /\ projects' = FilterOut(projects, c.pid)
               /\ ProjectChangeEffect(newP, Without(calls, c))
               /\ IF newP = Null
                  THEN /\ isCreating' = FALSE
                       /\ shareResult' = Null /\ shareModalError' = Null
                  ELSE UNCHANGED <<isCreating, shareResult, shareModalError>>
               /\ UNCHANGED error
       ELSE /\ error' = "Failed to delete project"
            /\ calls' = Without(calls, c)
            /\ UNCHANGED <<projects, currentProject, resources, messages,
                           selectedResources, isCreating, shareResult,
                           shareModalError>>
    /\ UNCHANGED <<backendVars, projectsLoading, isLoading, toasts, panelVars,
                   sharedVars, showShareModal, ops, deleted,
                   cardVars>>
    /\ ToastTimers

\* loadResources(), after `await fetchResources(currentProject.id)`
LoadResourcesDone(c) ==
    /\ c \in InFlight /\ c.kind = "loadResources"
    /\ c.st \in {"ok", "fail"}
    /\ resources' = IF c.st = "ok" THEN c.resp.list ELSE resources
    /\ calls' = Without(calls, c)
    /\ UNCHANGED <<backendVars, projects, currentProject,
                   projectsLoading, selectedResources, messages, isLoading,
                   error, toasts, panelVars, sharedVars, modalVars, ops, deleted,
                   cardVars>>
    /\ ToastTimers

\* ---------------------------------------------------- toasts and loadProjects
\* addToast(type, message): the message is kept as its template and the
\* resource it names
Toast(type, text, rid) == [type |-> type, text |-> text, rid |-> rid]

\* isResourceBusy(resource) of ResourcePanel
isResourceBusy(resource) ==
    \/ resource.id \in refreshingIds
    \/ resource.id \in deletingIds
    \/ resource.status = "processing"

\* rows of the displayed list that show resource r
Rows(r) == {i \in 1..Len(resources) : resources[i].id = r}

\* readyResourceCount of App
readyResourceCount ==
    Cardinality({i \in 1..Len(resources) : resources[i].status = "ready"})

\* ResourcePanel.handleSubmit -> App.handleAddResource(url), up to the await
SubmitAdd ==
    /\ ops < MaxUserOps
    /\ ~showShareModal
    /\ currentProject # Null /\ ~isAdding
    /\ \E r \in ResourceIds : bResources[r] = NoRes
    /\ isAdding' = TRUE
    /\ error' = Null
    /\ calls' = calls ++ {Fetch("addResource", currentProject, Null)}
    /\ ops' = ops + 1
    /\ UNCHANGED <<backendVars, projects, currentProject,
                   projectsLoading, resources, selectedResources, messages,
                   isLoading, toasts, refreshingIds, deletingIds, sharedVars, modalVars,
                   deleted,
                   cardVars>>
    /\ ToastTimers

\* pollResourceStatus(resourceId, name): setTimeout(checkStatus, 2000)
PollCall(pid, rid) == NewCall("checkStatus", pid, rid, EmptyBody, "timer")

\* handleAddResource after `await addResource(...)`, and handleSubmit's finally
AddResourceDone(c) ==
    /\ c \in InFlight /\ c.kind = "addResource"
    /\ c.st \in {"ok", "fail"}
    /\ isAdding' = FALSE
    /\ IF c.st = "ok"
       THEN LET resource == c.resp.list[1]
                base == Without(calls, c)
                poll == PollCall(c.pid, resource.id)
            IN /\ resources' = Append(resources, resource)
               /\ toasts' = toasts \cup {Toast("info", "Adding", resource.id)}
               /\ projectsLoading' = TRUE
               /\ calls' = base ++ {poll, Fetch("fetchProjects", c.pid, Null)}
               /\ UNCHANGED error
       ELSE /\ error' = "Failed to add resource"
            /\ toasts' = toasts \cup {Toast("error", "Failed to add resource", Null)}
            /\ calls' = Without(calls, c)
            /\ UNCHANGED <<resources, projectsLoading>>
    /\ UNCHANGED <<backendVars, projects, currentProject,
                   selectedResources, messages, isLoading, refreshingIds,
                   deletingIds, sharedVars, modalVars, ops, deleted,
                   cardVars>>
    /\ ToastTimers

\* the 2000 ms timer of a polling loop fires: checkStatus() fetches the list
PollTimer(c) ==
    /\ c \in InFlight /\ c.kind = "checkStatus" /\ c.st = "timer"
    /\ calls' = (Without(calls, c)) ++ {[c EXCEPT !.st = "sent"]}
    /\ UNCHANGED <<backendVars, appVars, panelVars, sharedVars, modalVars, ops,
                   deleted,
                   cardVars>>
    /\ ToastTimers

\* a checkStatus that also polls on while the resource is pending
PollAgainWhilePending(resource) ==
    resource.status \in {"pending", "processing"}

\* does checkStatus schedule itself again for the resource it found?
PollAgain(resource) == resource.status = "processing"

\* checkStatus() after `await fetchResources(currentProject.id)`
CheckStatusDone(c) ==
    /\ c \in InFlight /\ c.kind = "checkStatus"
    /\ c.st \in {"ok", "fail"}
    /\ IF c.st = "ok"
       THEN LET resource == Find(c.resp.list, c.rid)
                found == c.rid \in Ids(c.resp.list)
                base == Without(calls, c)
            IN /\ resources' = c.resp.list
               /\ IF found /\ PollAgain(resource)
                  THEN /\ calls' = base ++ {[c EXCEPT !.st = "timer",
                                                       !.resp = NoResp]}
                       /\ UNCHANGED <<toasts, projectsLoading>>
                  ELSE IF found
                  THEN /\ projectsLoading' = TRUE
                       /\ calls' = base ++
                              {Fetch("fetchProjects", c.pid, Null)}
                       /\ toasts' = toasts \cup
                            (IF resource.status = "ready"
                             THEN {Toast("success", "is ready", c.rid)}
                             ELSE IF resource.status = "error"
                             THEN {Toast("error", "Failed to process", c.rid)}
                             ELSE {})
                  ELSE /\ calls' = base
                       /\ UNCHANGED <<toasts, projectsLoading>>
       ELSE /\ calls' = Without(calls, c)
            /\ UNCHANGED <<resources, toasts, projectsLoading>>
    /\ UNCHANGED <<backendVars, projects, currentProject,
                   selectedResources, messages, isLoading, error, panelVars,
                   sharedVars, modalVars, ops, deleted,
                   cardVars>>
    /\ ToastTimers

\* ResourcePanel.handleDelete(id) -> App.handleDeleteResource, up to the await
ClickDelete(r) ==
    /\ ops < MaxUserOps
    /\ ~showShareModal
    /\ currentProject # Null /\ Rows(r) # {} /\ r \notin deletingIds
    /\ deletingIds' = deletingIds \cup {r}
    /\ calls' = calls ++ {Fetch("deleteResource", currentProject, r)}
    /\ ops' = ops + 1
    /\ UNCHANGED <<backendVars, appVars, isAdding, refreshingIds,
                   sharedVars, modalVars, deleted,
                   cardVars>>
    /\ ToastTimers

\* a handleDeleteResource that takes the resource off the list whatever the
\* outcome of the request
DeleteResourceDoneRemovesAnyway(c) ==
    /\ c \in InFlight /\ c.kind = "deleteResource"
    /\ c.st \in {"ok", "fail"}
    /\ deletingIds' = deletingIds \ {c.rid}
    /\ resources' = SelectSeqBy(resources, Ids(resources) \ {c.rid})
    /\ selectedResources' = FilterOut(selectedResources, c.rid)
    /\ IF c.st = "ok"
       THEN LET base == Without(calls, c)
            IN /\ projectsLoading' = TRUE
               /\ calls' = base ++ {Fetch("fetchProjects", c.pid, Null)}
               /\ toasts' = toasts \cup {Toast("success", "deleted", c.rid)}
               /\ deleted' = deleted \cup {c.rid}
               /\ UNCHANGED error
       ELSE /\ error' = "Failed to delete resource"
            /\ toasts' = toasts \cup
                   {Toast("error", "Failed to delete resource", Null)}
            /\ calls' = Without(calls, c)
            /\ UNCHANGED <<projectsLoading, deleted>>
    /\ UNCHANGED <<backendVars, projects, currentProject, messages,
                   isLoading, isAdding, refreshingIds, sharedVars, modalVars,
                   ops,
                   cardVars>>
    /\ ToastTimers

\* handleDeleteResource after `await deleteResource(...)`, and handleDelete's
\* finally
DeleteResourceDone(c) ==
    /\ c \in InFlight /\ c.kind = "deleteResource"
    /\ c.st \in {"ok", "fail"}
    /\ deletingIds' = deletingIds \ {c.rid}
    /\ IF c.st = "ok"
       THEN LET base == Without(calls, c)
            IN /\ resources' = SelectSeqBy(resources, Ids(resources) \ {c.rid})
               /\ selectedResources' = FilterOut(selectedResources, c.rid)
               /\ projectsLoading' = TRUE
               /\ calls' = base ++ {Fetch("fetchProjects", c.pid, Null)}
               /\ toasts' = toasts \cup {Toast("success", "deleted", c.rid)}
               /\ deleted' = deleted \cup {c.rid}
               /\ UNCHANGED error
       ELSE /\ error' = "Failed to delete resource"
            /\ toasts' = toasts \cup
                   {Toast("error", "Failed to delete resource", Null)}
            /\ calls' = Without(calls, c)
            /\ UNCHANGED <<resources, selectedResources, projectsLoading,
                           deleted>>
    /\ UNCHANGED <<backendVars, projects, currentProject, messages,
                   isLoading, isAdding, refreshingIds, sharedVars, modalVars, ops,
                   cardVars>>
    /\ ToastTimers

\* the refresh button of a row: ResourcePanel.handleRefresh(id) ->
\* App.handleRefreshResource, up to the await
ClickRefresh(r) ==
    /\ ops < MaxUserOps
    /\ ~showShareModal
    /\ currentProject # Null
    /\ \E i \in Rows(r) : ~isResourceBusy(resources[i])
    /\ refreshingIds' = refreshingIds \cup {r}
    /\ toasts' = toasts \cup {Toast("info", "Refreshing", r)}
    /\ calls' = calls ++ {Fetch("refreshResource", currentProject, r)}
    /\ ops' = ops + 1
    /\ UNCHANGED <<backendVars, projects, currentProject,
                   projectsLoading, resources, selectedResources, messages,
                   isLoading, error, isAdding, deletingIds, sharedVars, modalVars,
                   deleted,
                   cardVars>>
    /\ ToastTimers

\* prev.map(r => r.id === id ? updated : r)
RECURSIVE MapReplace(_, _)
MapReplace(rs, updated) ==
    IF rs = <<>> THEN <<>>
    ELSE <<IF Head(rs).id = updated.id THEN updated ELSE Head(rs)>>
         \o MapReplace(Tail(rs), updated)

\* handleRefreshResource after `await refreshResource(...)`, and
\* handleRefresh's finally
RefreshResourceDone(c) ==
    /\ c \in InFlight /\ c.kind = "refreshResource"
    /\ c.st \in {"ok", "fail"}
    /\ refreshingIds' = refreshingIds \ {c.rid}
    /\ IF c.st = "ok"
       THEN LET base == Without(calls, c)
            IN /\ resources' = MapReplace(resources, c.resp.list[1])
               /\ calls' = base ++ {PollCall(c.pid, c.rid)}
               /\ UNCHANGED <<error, toasts>>
       ELSE /\ error' = "Failed to refresh resource"
            /\ toasts' = toasts \cup
                   {Toast("error", "Failed to refresh resource", Null)}
            /\ calls' = Without(calls, c)
            /\ UNCHANGED resources
    /\ UNCHANGED <<backendVars, projects, currentProject,
                   projectsLoading, selectedResources, messages, isLoading,
                   isAdding, deletingIds, sharedVars, modalVars, ops, deleted,
                   cardVars>>
    /\ ToastTimers

\* a click on a row: handleToggleResource(id), for a ready row that is not busy
ToggleResource(r) ==
    /\ ops < MaxUserOps
    /\ ~showShareModal
    /\ currentProject # Null
    /\ \E i \in Rows(r) : /\ resources[i].status = "ready"
                          /\ ~isResourceBusy(resources[i])
    /\ selectedResources' = IF r \in Range(selectedResources)
                            THEN FilterOut(selectedResources, r)
                            ELSE Append(selectedResources, r)
    /\ ops' = ops + 1
    /\ UNCHANGED <<backendVars, projects, currentProject,
                   projectsLoading, resources, messages, isLoading, error,
                   toasts, panelVars, sharedVars, modalVars, calls, deleted,
                   cardVars>>
    /\ ToastTimers

\* removeToast(id), as the close button of a toast calls it
RemoveToast(t) ==
    /\ t \in toasts
    /\ toasts' = toasts \ {t}
    /\ UNCHANGED <<backendVars, projects, currentProject,
                   projectsLoading, resources, selectedResources, messages,
                   isLoading, error, panelVars, sharedVars, modalVars, calls, ops,
                   deleted,
                   cardVars>>
    /\ ToastTimers

\* the setTimeout of a ToastItem's effect expires: onRemove()
ToastTimeout(t) ==
    /\ t \in toasts /\ toastLeft[t] = 0
    /\ RemoveToast(t)

\* TickMs pass while toasts are shown and no timer of a toast is due
Tick ==
    /\ toasts # {}
    /\ \A t \in toasts : /\ toastLeft[t] >= TickMs
                          /\ toastAge[t] + TickMs <= MaxToastAge
    /\ toastAge' = [t \in toasts |-> toastAge[t] + TickMs]
    /\ toastLeft' = [t \in toasts |-> toastLeft[t] - TickMs]
    /\ UNCHANGED <<backendVars, appVars, panelVars, sharedVars, modalVars,
                   calls, ops, deleted, cardVars>>

\* ------------------------------------------------------------------- chat
\* ChatMessage: role, content and (for an answer) the sources of the response
UserMessage(content) == [role |-> "user", content |-> content, sources |-> <<>>]
AssistantMessage(resp) ==
    [role |-> "assistant", content |-> resp.answer, sources |-> resp.sources]

\* a history that lists the most recent message first
HistoryNewestFirst(ms) ==
    [i \in 1..Len(ms) |-> [role |-> ms[Len(ms) + 1 - i].role,
                           content |-> ms[Len(ms) + 1 - i].content]]

\* messages.map(m => ({ role: m.role, content: m.content }))
RECURSIVE History(_)
History(ms) ==
    IF ms = <<>> THEN <<>>
    ELSE <<[role |-> Head(ms).role, content |-> Head(ms).content]>>
         \o History(Tail(ms))

\* a handleSendMessage that passes the selection on as it is, empty or not
ChatRequestAlwaysIds(content) ==
    [message |-> content,
     has_ids |-> TRUE,
     resource_ids |-> selectedResources,
     conversation_history |-> History(messages)]

\* the ChatRequest handleSendMessage builds: resource_ids is the selection,
\* or undefined (left out of the JSON body) when nothing is selected
ChatRequest(content) ==
    [message |-> content,
     has_ids |-> Len(selectedResources) > 0,
     resource_ids |-> IF Len(selectedResources) > 0 THEN selectedResources
                      ELSE <<>>,
     conversation_history |-> History(messages)]

\* a ChatPanel whose handleSubmit does not look at isLoading
SubmitMessageWhileLoading(content) ==
    /\ ~showShareModal
    /\ currentProject # Null
    /\ readyResourceCount > 0
    /\ Len(messages) + 2 <= MaxMsgs
    /\ messages' = Append(messages, UserMessage(content))
    /\ isLoading' = TRUE
    /\ error' = Null
    /\ calls' = calls ++ {NewCall("sendMessage", currentProject, Null,
                                  ChatRequest(content), "sent")}
    /\ UNCHANGED <<backendVars, projects, currentProject, projectsLoading,
                   resources, selectedResources, toasts, panelVars,
                   sharedVars, modalVars, ops, deleted,
                   cardVars>>
    /\ ToastTimers

\* ChatPanel.handleSubmit -> App.handleSendMessage(content), up to the await;
\* the textarea and the send button are disabled without a ready resource
SubmitMessage(content) ==
    /\ ~showShareModal
    /\ currentProject # Null
    /\ readyResourceCount > 0 /\ ~isLoading
    /\ Len(messages) + 2 <= MaxMsgs
    /\ messages' = Append(messages, UserMessage(content))
    /\ isLoading' = TRUE
    /\ error' = Null
    /\ calls' = calls ++ {NewCall("sendMessage", currentProject, Null,
                                  ChatRequest(content), "sent")}
    /\ UNCHANGED <<backendVars, projects, currentProject, projectsLoading,
                   resources, selectedResources, toasts, panelVars,
                   sharedVars, modalVars, ops, deleted,
                   cardVars>>
    /\ ToastTimers

\* a handleSendMessage whose catch shows the failure as an answer
SendMessageDoneAnswersError(c) ==
    /\ c \in InFlight /\ c.kind = "sendMessage" /\ c.st \in {"ok", "fail"}
    /\ IF c.st = "ok"
       THEN /\ messages' = Append(messages, AssistantMessage(c.resp))
            /\ UNCHANGED error
       ELSE /\ error' = "Failed to send message"
            /\ messages' = Append(messages,
                   [role |-> "assistant", content |-> "Failed to send message",
                    sources |-> <<>>])
    /\ isLoading' = FALSE
    /\ calls' = Without(calls, c)
    /\ UNCHANGED <<backendVars, projects, currentProject, projectsLoading,
                   resources, selectedResources, toasts, panelVars,
                   sharedVars, modalVars, ops, deleted,
                   cardVars>>
    /\ ToastTimers

\* handleSendMessage after `await sendMessage(...)`: try, catch and finally
SendMessageDone(c) ==
    /\ c \in InFlight /\ c.kind = "sendMessage" /\ c.st \in {"ok", "fail"}
    /\ IF c.st = "ok"
       THEN /\ messages' = Append(messages, AssistantMessage(c.resp))
            /\ UNCHANGED error
       ELSE /\ error' = "Failed to send message"
            /\ UNCHANGED messages
    /\ isLoading' = FALSE
    /\ calls' = Without(calls, c)
    /\ UNCHANGED <<backendVars, projects, currentProject, projectsLoading,
                   resources, selectedResources, toasts, panelVars,
                   sharedVars, modalVars, ops, deleted,
                   cardVars>>
    /\ ToastTimers

\* handleClearChat, from the Clear button shown while the transcript is not
\* empty
ClearChat ==
    /\ ~showShareModal
    /\ currentProject # Null /\ Len(messages) > 0
    /\ messages' = <<>>
    /\ UNCHANGED <<backendVars, projects, currentProject, projectsLoading,
                   resources, selectedResources, isLoading, error, toasts,
                   panelVars, sharedVars, modalVars, calls, ops, deleted,
                   cardVars>>
    /\ ToastTimers

\* the Dismiss button of the error banner: setError(null)
DismissError ==
    /\ ~ModalShown
    /\ error # Null
    /\ error' = Null
    /\ UNCHANGED <<backendVars, projects, currentProject, projectsLoading,
                   resources, selectedResources, messages, isLoading, toasts,
                   panelVars, sharedVars, modalVars, calls, ops, deleted,
                   cardVars>>
    /\ ToastTimers

\* ------------------------------------------------------------- ShareModal
\* the share button of the header: setShowShareModal(true); rendered while a
\* project is current, disabled while readyResourceCount is 0
OpenShareModal ==
    /\ currentProject # Null /\ ~showShareModal
    /\ readyResourceCount > 0
    /\ showShareModal' = TRUE
    /\ UNCHANGED <<backendVars, appVars, panelVars, sharedVars, isCreating,
                   shareResult, shareModalError, calls, ops, deleted,
                   cardVars>>
    /\ ToastTimers

\* ShareModal.handleCreate up to the await; projectId is currentProject.id and
\* resourceCount is readyResourceCount
ClickCreateShare ==
    /\ currentProject # Null /\ showShareModal
    /\ shareResult = Null
    /\ ~isCreating /\ readyResourceCount > 0
    /\ isCreating' = TRUE
    /\ shareModalError' = Null
    /\ calls' = calls ++ {Fetch("createShare", currentProject, Null)}
    /\ UNCHANGED <<backendVars, appVars, panelVars, sharedVars, showShareModal,
                   shareResult, ops, deleted,
                   cardVars>>
    /\ ToastTimers

\* ShareModal.handleCreate after `await createShare(...)`: the result is kept
\* as the project the share session is of; nothing is set when the modal was
\* unmounted meanwhile
CreateShareDone(c) ==
    /\ c \in InFlight /\ c.kind = "createShare" /\ c.st \in {"ok", "fail"}
    /\ IF currentProject = Null
       THEN UNCHANGED <<shareResult, shareModalError, isCreating>>
       ELSE /\ IF c.st = "ok"
               THEN /\ shareResult' = c.pid
                    /\ UNCHANGED shareModalError
               ELSE /\ shareModalError' = "Failed to create share link"
                    /\ UNCHANGED shareResult
            /\ isCreating' = FALSE
    /\ calls' = Without(calls, c)
    /\ UNCHANGED <<backendVars, appVars, panelVars, sharedVars, showShareModal,
                   ops, deleted,
                   cardVars>>
    /\ ToastTimers

\* ShareModal.handleClose, from the backdrop, the X or the Close button
CloseShareModal ==
    /\ currentProject # Null /\ showShareModal
    /\ shareResult' = Null
    /\ shareModalError' = Null
    /\ showShareModal' = FALSE
    /\ UNCHANGED <<backendVars, appVars, panelVars, sharedVars, isCreating,
                   calls, ops, deleted,
                   cardVars>>
    /\ ToastTimers

\* ------------------------------------------------------------- SharedChat
\* loadShareInfo() after `await fetchShareInfo(shareId)`: try, catch, finally
LoadShareInfoDone(c) ==
    /\ c \in InFlight /\ c.kind = "fetchShareInfo" /\ c.st \in {"ok", "fail"}
    /\ IF c.st = "ok"
       THEN /\ shareInfo' = [loaded |-> TRUE, resources |-> c.resp.list]
            /\ UNCHANGED sharedError
       ELSE /\ sharedError' = "Share link not found or expired"
            /\ UNCHANGED shareInfo
    /\ initialLoading' = FALSE
    /\ calls' = Without(calls, c)
    /\ UNCHANGED <<backendVars, appVars, panelVars, modalVars, sharedMessages,
                   sharedIsLoading, ops, deleted,
                   cardVars>>
    /\ ToastTimers

\* a shared page that narrows the chat to the resources it lists
SharedChatRequestWithIds(content) ==
    [message |-> content,
     has_ids |-> TRUE,
     resource_ids |-> [i \in 1..Len(shareInfo.resources) |->
                         shareInfo.resources[i].id],
     conversation_history |-> History(sharedMessages)]

\* the ChatRequest SharedChat.handleSendMessage builds: message and history
SharedChatRequest(content) ==
    [message |-> content,
     has_ids |-> FALSE,
     resource_ids |-> <<>>,
     conversation_history |-> History(sharedMessages)]

\* a shared page that chats through the project's own endpoint
SharedChatCallViaProject(content) ==
    NewCall("sendMessage", ShareProject, Null, SharedChatRequest(content),
            "sent")

\* the fetch SharedChat.handleSendMessage issues: sendShareMessage(shareId, ..)
SharedChatCall(content) ==
    NewCall("sendShareMessage", Null, Null, SharedChatRequest(content), "sent")

\* ChatPanel.handleSubmit -> SharedChat.handleSendMessage(content), up to the
\* await; the ChatPanel is rendered once the share info is loaded
SharedSubmitMessage(content) ==
    /\ ~initialLoading /\ shareInfo.loaded
    /\ Len(shareInfo.resources) > 0 /\ ~sharedIsLoading
    /\ Len(sharedMessages) + 2 <= MaxMsgs
    /\ sharedMessages' = Append(sharedMessages, UserMessage(content))
    /\ sharedIsLoading' = TRUE
    /\ sharedError' = Null
    /\ calls' = calls ++ {SharedChatCall(content)}
    /\ UNCHANGED <<backendVars, appVars, panelVars, modalVars, shareInfo, initialLoading,
                   ops, deleted,
                   cardVars>>
    /\ ToastTimers

\* a shared page whose catch shows the failure as an answer
SharedSendMessageDoneAnswersError(c) ==
    /\ c \in InFlight /\ c.kind = "sendShareMessage"
    /\ c.st \in {"ok", "fail"}
    /\ IF c.st = "ok"
       THEN /\ sharedMessages' = Append(sharedMessages, AssistantMessage(c.resp))
            /\ UNCHANGED sharedError
       ELSE /\ sharedError' = "Failed to send message"
            /\ sharedMessages' = Append(sharedMessages,
                   [role |-> "assistant", content |-> "Failed to send message",
                    sources |-> <<>>])
    /\ sharedIsLoading' = FALSE
    /\ calls' = Without(calls, c)
    /\ UNCHANGED <<backendVars, appVars, panelVars, modalVars, shareInfo,
                   initialLoading, ops, deleted,
                   cardVars>>
    /\ ToastTimers

\* SharedChat.handleSendMessage after `await sendShareMessage(...)`
SharedSendMessageDone(c) ==
    /\ c \in InFlight /\ c.kind = "sendShareMessage"
    /\ c.st \in {"ok", "fail"}
    /\ IF c.st = "ok"
       THEN /\ sharedMessages' = Append(sharedMessages, AssistantMessage(c.resp))
            /\ UNCHANGED sharedError
       ELSE /\ sharedError' = "Failed to send message"
            /\ UNCHANGED sharedMessages
    /\ sharedIsLoading' = FALSE
    /\ calls' = Without(calls, c)
    /\ UNCHANGED <<backendVars, appVars, panelVars, modalVars, shareInfo, initialLoading,
                   ops, deleted,
                   cardVars>>
    /\ ToastTimers

\* SharedChat.handleClearChat
SharedClearChat ==
    /\ ~initialLoading /\ shareInfo.loaded /\ Len(sharedMessages) > 0
    /\ sharedMessages' = <<>>
    /\ UNCHANGED <<backendVars, appVars, panelVars, modalVars, shareInfo,
                   sharedIsLoading, sharedError, initialLoading, calls, ops,
                   deleted,
                   cardVars>>
    /\ ToastTimers

\* the Dismiss button of SharedChat's error banner
SharedDismissError ==
    /\ ~initialLoading /\ shareInfo.loaded /\ sharedError # Null
    /\ sharedError' = Null
    /\ UNCHANGED <<backendVars, appVars, panelVars, modalVars, shareInfo, sharedMessages,
                   sharedIsLoading, initialLoading, calls, ops, deleted,
                   cardVars>>
    /\ ToastTimers

\* ------------------------------------------------------------- SourceCard
\* Math.min, Math.max
Min(a, b) == IF a < b THEN a ELSE b
Max(a, b) == IF a > b THEN a ELSE b

\* Math.round(num / den) for den > 0: the integer nearest to it, a tie going
\* up, which is floor(num / den + 1/2)
MathRound(num, den) == (2 * num + den) \div (2 * den)

\* a getRelevancePercent that rounds the percentage and does not clamp it
getRelevancePercentUnclamped(s) == MathRound(s * 100, ScoreDen)

\* getRelevancePercent(score) for score = s / ScoreDen:
\* Math.round(Math.max(0, Math.min(100, score * 100)))
getRelevancePercent(s) ==
    MathRound(Max(0, Min(100 * ScoreDen, s * 100)), ScoreDen)

\* SourceCard renders: `const relevance = getRelevancePercent(source.score)`
RenderSourceCard ==
    /\ relevance = <<>>
    /\ relevance' = <<getRelevancePercent(score)>>
    /\ UNCHANGED <<backendVars, appVars, panelVars, sharedVars, modalVars,
                   calls, ops, deleted, toastVars, score>>

\* the method and path of the HTTP request a call makes (api.ts)
Request(c) ==
    CASE c.kind = "fetchProjects" ->
           [method |-> "GET", path |-> "/api/projects"]
      [] c.kind = "deleteProject" ->
           [method |-> "DELETE", path |-> "/api/projects/{id}"]
      [] c.kind \in {"loadResources", "checkStatus"} ->
           [method |-> "GET", path |-> "/api/projects/{id}/resources"]
      [] c.kind = "addResource" ->
           [method |-> "POST", path |-> "/api/projects/{id}/resources"]
      [] c.kind = "deleteResource" ->
           [method |-> "DELETE", path |-> "/api/projects/{id}/resources/{rid}"]
      [] c.kind = "refreshResource" ->
           [method |-> "POST",
            path |-> "/api/projects/{id}/resources/{rid}/refresh"]
      [] c.kind = "sendMessage" ->
           [method |-> "POST", path |-> "/api/projects/{id}/chat"]
      [] c.kind = "createShare" ->
           [method |-> "POST", path |-> "/api/projects/{id}/share"]
      [] c.kind = "fetchShareInfo" ->
           [method |-> "GET", path |-> "/api/share/{shareId}"]
      [] c.kind = "sendShareMessage" ->
           [method |-> "POST", path |-> "/api/share/{shareId}/chat"]

\* ------------------------------------------------- backend request service
\* GET /api/projects
ServeFetchProjects(c) ==
    /\ c \in InFlight /\ c.kind = "fetchProjects" /\ c.st = "sent"
    /\ \E ok \in BOOLEAN :
         calls' = (Without(calls, c)) ++
            {IF ok THEN [c EXCEPT !.st = "ok", !.resp.projects = bProjects]
                   ELSE [c EXCEPT !.st = "fail"]}
    /\ UNCHANGED <<backendVars, appVars, panelVars, sharedVars, modalVars, ops,
                   deleted,
                   cardVars>>
    /\ ToastTimers

\* a project delete that leaves the project's share sessions behind
ServeDeleteProjectKeepsShares(c) ==
    /\ c \in InFlight /\ c.kind = "deleteProject" /\ c.st = "sent"
    /\ \E ok \in BOOLEAN :
         IF ok /\ c.pid \in Range(bProjects)
         THEN LET owned == {r \in ResourceIds : bResources[r].project_id = c.pid}
              IN /\ bProjects' = FilterOut(bProjects, c.pid)
                 /\ bResources' = [r \in ResourceIds |->
                        IF r \in owned THEN Gone ELSE bResources[r]]
                 /\ bChunkCount' = [r \in ResourceIds |->
                        IF r \in owned THEN 0 ELSE bChunkCount[r]]
                 /\ bIndex' = [r \in ResourceIds |->
                        IF r \in owned THEN NoChunks ELSE bIndex[r]]
                 /\ UNCHANGED <<bCreated, bShare>>
                 /\ calls' = Without(calls, c) ++ {[c EXCEPT !.st = "ok"]}
         ELSE /\ calls' = Without(calls, c) ++ {[c EXCEPT !.st = "fail"]}
              /\ UNCHANGED backendVars
    /\ UNCHANGED <<appVars, panelVars, sharedVars, modalVars, ops, deleted,
                   cardVars>>
    /\ ToastTimers

\* DELETE /api/projects/{id}: removes the project with all its resources,
\* their chunks and its share sessions; NotFound for an unknown project
ServeDeleteProject(c) ==
    /\ c \in InFlight /\ c.kind = "deleteProject" /\ c.st = "sent"
    /\ \E ok \in BOOLEAN :
         IF ok /\ c.pid \in Range(bProjects)
         THEN LET owned == {r \in ResourceIds : bResources[r].project_id = c.pid}
              IN /\ bProjects' = FilterOut(bProjects, c.pid)
                 /\ bResources' = [r \in ResourceIds |->
                        IF r \in owned THEN Gone ELSE bResources[r]]
                 /\ bChunkCount' = [r \in ResourceIds |->
                        IF r \in owned THEN 0 ELSE bChunkCount[r]]
                 /\ bIndex' = [r \in ResourceIds |->
                        IF r \in owned THEN NoChunks ELSE bIndex[r]]
                 /\ bCreated' = bCreated \ {c.pid}
                 /\ bShare' = (bShare /\ ShareProject # c.pid)
                 /\ calls' = Without(calls, c) ++ {[c EXCEPT !.st = "ok"]}
         ELSE /\ calls' = Without(calls, c) ++ {[c EXCEPT !.st = "fail"]}
              /\ UNCHANGED backendVars
    /\ UNCHANGED <<appVars, panelVars, sharedVars, modalVars, ops, deleted,
                   cardVars>>
    /\ ToastTimers

\* GET /api/projects/{id}/resources
ServeFetchResources(c) ==
    /\ c \in InFlight /\ c.kind \in {"loadResources", "checkStatus"}
    /\ c.st = "sent"
    /\ \E ok \in BOOLEAN :
         calls' = (Without(calls, c)) ++
            {IF ok THEN [c EXCEPT !.st = "ok",
                                  !.resp.list = ListResources(c.pid)]
                   ELSE [c EXCEPT !.st = "fail"]}
    /\ UNCHANGED <<backendVars, appVars, panelVars, sharedVars, modalVars, ops,
                   deleted,
                   cardVars>>
    /\ ToastTimers

\* POST /api/projects/{id}/resources: add(project_id, url) creates the
\* resource in pending and returns it at once
ServeAddResource(c) ==
    /\ c \in InFlight /\ c.kind = "addResource" /\ c.st = "sent"
    /\ \E ok \in BOOLEAN :
         IF ok /\ c.pid \in Range(bProjects)
               /\ \E r \in ResourceIds : bResources[r] = NoRes
         THEN LET i == CHOOSE i \in 1..Len(ResourceOrder) :
                         /\ bResources[ResourceOrder[i]] = NoRes
                         /\ \A j \in 1..(i - 1) :
                               bResources[ResourceOrder[j]] # NoRes
                  r == ResourceOrder[i]
                  created == [project_id |-> c.pid, status |-> "pending"]
              IN /\ bResources' = [bResources EXCEPT ![r] = created]
                 /\ calls' = (Without(calls, c)) ++
                      {[c EXCEPT !.st = "ok",
                                 !.resp.list = <<[id |-> r] @@ created>>]}
         ELSE /\ calls' = (Without(calls, c)) ++ {[c EXCEPT !.st = "fail"]}
              /\ UNCHANGED bResources
    /\ UNCHANGED <<bProjects, bShare, bCreated, bChunkCount, bIndex, appVars, panelVars, sharedVars, modalVars,
                   ops, deleted,
                   cardVars>>
    /\ ToastTimers

\* DELETE /api/projects/{id}/resources/{rid}: NotFound unless the resource
\* belongs to the project
ServeDeleteResource(c) ==
    /\ c \in InFlight /\ c.kind = "deleteResource" /\ c.st = "sent"
    /\ \E ok \in BOOLEAN :
         IF ok /\ bResources[c.rid].project_id = c.pid
         THEN /\ bResources' = [bResources EXCEPT ![c.rid] = Gone]
              /\ bChunkCount' = [bChunkCount EXCEPT ![c.rid] = 0]
              /\ bIndex' = [bIndex EXCEPT ![c.rid] = NoChunks]
              /\ calls' = (Without(calls, c)) ++ {[c EXCEPT !.st = "ok"]}
         ELSE /\ calls' = (Without(calls, c)) ++ {[c EXCEPT !.st = "fail"]}
              /\ UNCHANGED <<bResources, bChunkCount, bIndex>>
    /\ UNCHANGED <<bProjects, bShare, bCreated, appVars, panelVars,
                   sharedVars, modalVars, ops, deleted,
                   cardVars>>
    /\ ToastTimers

\* delete(project_id, resource_id) called by another client of the backend
\* (the owner's second tab)
OtherClientDeletes(r) ==
    /\ bResources[r].project_id \in ProjectIds
    /\ bResources' = [bResources EXCEPT ![r] = Gone]
    /\ bChunkCount' = [bChunkCount EXCEPT ![r] = 0]
    /\ bIndex' = [bIndex EXCEPT ![r] = NoChunks]
    /\ UNCHANGED <<bProjects, bShare, bCreated, appVars, panelVars,
                   sharedVars, modalVars, calls, ops, deleted,
                   cardVars>>
    /\ ToastTimers

\* POST /api/projects/{id}/resources/{rid}/refresh: NotFound unless the
\* resource belongs to the project, rejected while a run is in flight,
\* otherwise back to processing
ServeRefreshResource(c) ==
    /\ c \in InFlight /\ c.kind = "refreshResource" /\ c.st = "sent"
    /\ \E ok \in BOOLEAN :
         IF /\ ok /\ bResources[c.rid].project_id = c.pid
            /\ bResources[c.rid].status \in {"ready", "error"}
         THEN LET updated == [bResources[c.rid] EXCEPT !.status = "processing"]
              IN /\ bResources' = [bResources EXCEPT ![c.rid] = updated]
                 /\ calls' = (Without(calls, c)) ++
                      {[c EXCEPT !.st = "ok",
                                 !.resp.list = <<[id |-> c.rid] @@ updated>>]}
         ELSE /\ calls' = (Without(calls, c)) ++ {[c EXCEPT !.st = "fail"]}
              /\ UNCHANGED bResources
    /\ UNCHANGED <<bProjects, bShare, bCreated, bChunkCount, bIndex, appVars, panelVars, sharedVars, modalVars,
                   ops, deleted,
                   cardVars>>
    /\ ToastTimers

\* a pipeline run that replaces the chunks and leaves chunk_count as it was
PipelineKeepsCount(r) ==
    /\ \E to \in {"processing", "ready", "error"}, n \in 1..MaxChunks :
         /\ \/ bResources[r].status = "pending" /\ to = "processing"
            \/ bResources[r].status = "processing" /\ to \in {"ready", "error"}
         /\ bResources' = [bResources EXCEPT ![r].status = to]
         /\ IF to = "ready"
            THEN /\ bIndex' = [bIndex EXCEPT ![r] =
                       [version |-> bIndex[r].version + 1, chunks |-> n]]
                 /\ UNCHANGED bChunkCount
            ELSE UNCHANGED <<bChunkCount, bIndex>>
    /\ UNCHANGED <<bProjects, bShare, bCreated, appVars, panelVars,
                   sharedVars, modalVars, calls, ops, deleted,
                   cardVars>>
    /\ ToastTimers

\* a pipeline run that drops the resource's chunks when it fails
PipelineFailureClears(r) ==
    /\ \E to \in {"processing", "ready", "error"}, n \in 1..MaxChunks :
         /\ \/ bResources[r].status = "pending" /\ to = "processing"
            \/ bResources[r].status = "processing" /\ to \in {"ready", "error"}
         /\ bResources' = [bResources EXCEPT ![r].status = to]
         /\ IF to = "ready"
            THEN /\ bChunkCount' = [bChunkCount EXCEPT ![r] = n]
                 /\ bIndex' = [bIndex EXCEPT ![r] =
                       [version |-> bIndex[r].version + 1, chunks |-> n]]
            ELSE IF to = "error"
            THEN /\ bChunkCount' = [bChunkCount EXCEPT ![r] = 0]
                 /\ bIndex' = [bIndex EXCEPT ![r] = NoChunks]
            ELSE UNCHANGED <<bChunkCount, bIndex>>
    /\ UNCHANGED <<bProjects, bShare, bCreated, appVars, panelVars,
                   sharedVars, modalVars, calls, ops, deleted,
                   cardVars>>
    /\ ToastTimers

\* one step of a pipeline run: pending -> processing -> ready or error.  A
\* run that succeeds has produced n > 0 chunks and swaps them in as the
\* resource's chunk set together with chunk_count; a run that fails leaves
\* the chunk set and chunk_count as they were
Pipeline(r) ==
    /\ \E to \in {"processing", "ready", "error"}, n \in 1..MaxChunks :
         /\ \/ bResources[r].status = "pending" /\ to = "processing"
            \/ bResources[r].status = "processing" /\ to \in {"ready", "error"}
         /\ bResources' = [bResources EXCEPT ![r].status = to]
         /\ IF to = "ready"
            THEN /\ bChunkCount' = [bChunkCount EXCEPT ![r] = n]
                 /\ bIndex' = [bIndex EXCEPT ![r] =
                       [version |-> bIndex[r].version + 1, chunks |-> n]]
            ELSE UNCHANGED <<bChunkCount, bIndex>>
    /\ UNCHANGED <<bProjects, bShare, bCreated, appVars, panelVars,
                   sharedVars, modalVars, calls, ops, deleted,
                   cardVars>>
    /\ ToastTimers

\* the sources of an answer: the ready resources of the project, narrowed to
\* resource_ids when the request carries them
ChatSources(pid, body) ==
    SelectSeqBy(ReadyOf(pid),
                IF body.has_ids THEN Range(body.resource_ids) ELSE ResourceIds)

\* POST /api/projects/{id}/chat: an answer with its sources, or a failure
\* (ProjectNotFound, GenerationFailure)
ServeChat(c) ==
    /\ c \in InFlight /\ c.kind = "sendMessage" /\ c.st = "sent"
    /\ \E ok \in BOOLEAN :
         calls' = Without(calls, c) ++
            {IF ok /\ c.pid \in Range(bProjects)
             THEN [c EXCEPT !.st = "ok", !.resp.answer = "answer",
                            !.resp.sources = ChatSources(c.pid, c.body)]
             ELSE [c EXCEPT !.st = "fail"]}
    /\ UNCHANGED <<backendVars, appVars, panelVars, sharedVars, modalVars, ops, deleted,
                   cardVars>>
    /\ ToastTimers

\* POST /api/projects/{id}/share: create_share, which fails for a project
\* with zero ready resources
ServeCreateShare(c) ==
    /\ c \in InFlight /\ c.kind = "createShare" /\ c.st = "sent"
    /\ \E ok \in BOOLEAN :
         IF ok /\ c.pid \in Range(bProjects) /\ ReadyOf(c.pid) # <<>>
         THEN /\ bCreated' = bCreated \cup {c.pid}
              /\ calls' = Without(calls, c) ++ {[c EXCEPT !.st = "ok"]}
         ELSE /\ calls' = Without(calls, c) ++ {[c EXCEPT !.st = "fail"]}
              /\ UNCHANGED bCreated
    /\ UNCHANGED <<bProjects, bResources, bShare, bChunkCount, bIndex,
                   appVars, panelVars,
                   sharedVars, modalVars, ops, deleted,
                   cardVars>>
    /\ ToastTimers

\* GET /api/share/{shareId}: resolve_share, ShareNotFound once deleted
ServeShareInfo(c) ==
    /\ c \in InFlight /\ c.kind = "fetchShareInfo" /\ c.st = "sent"
    /\ \E ok \in BOOLEAN :
         calls' = Without(calls, c) ++
            {IF ok /\ bShare
             THEN [c EXCEPT !.st = "ok", !.resp.list = ReadyOf(ShareProject)]
             ELSE [c EXCEPT !.st = "fail"]}
    /\ UNCHANGED <<backendVars, appVars, panelVars, sharedVars, modalVars, ops, deleted,
                   cardVars>>
    /\ ToastTimers

\* POST /api/share/{shareId}/chat: chat_via_share over all ready resources of
\* the share's project, ShareNotFound once deleted
ServeShareChat(c) ==
    /\ c \in InFlight /\ c.kind = "sendShareMessage" /\ c.st = "sent"
    /\ \E ok \in BOOLEAN :
         calls' = Without(calls, c) ++
            {IF ok /\ bShare
             THEN [c EXCEPT !.st = "ok", !.resp.answer = "answer",
                            !.resp.sources = ReadyOf(ShareProject)]
             ELSE [c EXCEPT !.st = "fail"]}
    /\ UNCHANGED <<backendVars, appVars, panelVars, sharedVars, modalVars, ops, deleted,
                   cardVars>>
    /\ ToastTimers

\* delete_share by the owner of the project, from elsewhere
RevokeShare ==
    /\ bShare
    /\ bShare' = FALSE
    /\ UNCHANGED <<bProjects, bResources, bCreated, bChunkCount, bIndex,
                   appVars, panelVars, sharedVars, modalVars,
                   calls, ops, deleted,
                   cardVars>>
    /\ ToastTimers

\* --------------------------------------------------------- specifications
\* project selection and resource selection on the App page
NextNavigation ==
    \/ \E c \in InFlight : FetchProjectsRoundTrip(c)
    \/ \E p \in ProjectIds : SelectProject(p)
    \/ \E c \in InFlight : LoadResourcesDone(c)
    \/ \E c \in InFlight : ServeFetchResources(c)
    \/ \E r \in ResourceIds : ToggleResource(r)

\* the resource side of the App page
NextResources ==
    \/ NextNavigation
    \/ SubmitAdd
    \/ \E c \in InFlight : AddResourceDone(c)
    \/ \E c \in InFlight : PollTimer(c)
    \/ \E c \in InFlight : CheckStatusDone(c)
    \/ \E r \in ResourceIds : ClickDelete(r)
    \/ \E c \in InFlight : DeleteResourceDone(c)
    \/ \E r \in ResourceIds : ClickRefresh(r)
    \/ \E c \in InFlight : RefreshResourceDone(c)
    \/ \E c \in InFlight : ServeAddResource(c)
    \/ \E c \in InFlight : ServeDeleteResource(c)
    \/ \E c \in InFlight : ServeRefreshResource(c)
    \/ \E r \in ResourceIds : Pipeline(r)

SpecResources == InitAppPage /\ [][NextResources]_vars

\* the life of the resources on the backend, as this client's add, refresh
\* and delete requests and the pipeline runs drive it; the status polls, which
\* only read, are left to SpecResources
NextLifecycle ==
    \/ NextNavigation
    \/ SubmitAdd
    \/ \E c \in InFlight : AddResourceDone(c)
    \/ \E r \in ResourceIds : ClickDelete(r)
    \/ \E c \in InFlight : DeleteResourceDone(c)
    \/ \E r \in ResourceIds : ClickRefresh(r)
    \/ \E c \in InFlight : RefreshResourceDone(c)
    \/ \E c \in InFlight : ServeAddResource(c)
    \/ \E c \in InFlight : ServeDeleteResource(c)
    \/ \E c \in InFlight : ServeRefreshResource(c)
    \/ \E r \in ResourceIds : Pipeline(r)
    \/ \E r \in ResourceIds : OtherClientDeletes(r)

SpecLifecycle == InitAppPage /\ [][NextLifecycle]_vars

\* the chat side of the App page
NextChat ==
    \/ NextNavigation
    \/ \E content \in Contents : SubmitMessage(content)
    \/ \E c \in InFlight : ServeChat(c)
    \/ \E c \in InFlight : SendMessageDone(c)
    \/ ClearChat
    \/ DismissError

SpecChat == InitAppPage /\ [][NextChat]_vars

\* sharing from the App page
NextShare ==
    \/ NextNavigation
    \/ OpenShareModal
    \/ ClickCreateShare
    \/ \E c \in InFlight : ServeCreateShare(c)
    \/ \E c \in InFlight : CreateShareDone(c)
    \/ CloseShareModal

SpecShare == InitAppPage /\ [][NextShare]_vars

\* the tab shows the shared page /s/{shareId}: its mount effect has called
\* loadShareInfo(); the link may be one whose share was deleted
InitSharedPage ==
    /\ InitBackend /\ InitApp /\ InitShared /\ NoCard
    /\ bShare \in BOOLEAN
    /\ calls = SetToBag({Fetch("fetchShareInfo", Null, Null)})
    /\ ops = 0 /\ deleted = {}

NextShared ==
    \/ \E c \in InFlight : ServeShareInfo(c)
    \/ \E c \in InFlight : LoadShareInfoDone(c)
    \/ \E content \in Contents : SharedSubmitMessage(content)
    \/ \E c \in InFlight : ServeShareChat(c)
    \/ \E c \in InFlight : SharedSendMessageDone(c)
    \/ SharedClearChat
    \/ SharedDismissError
    \/ RevokeShare

SpecShared == InitSharedPage /\ [][NextShared]_vars

\* the owner's tab shows the App page while a visitor's tab shows the shared
\* page of the owner's project: both mount effects have run
InitBothPages ==
    /\ InitBackend /\ InitApp /\ InitShared /\ NoCard
    /\ bShare = TRUE
    /\ calls = SetToBag({Fetch("fetchProjects", Null, Null),
                         Fetch("fetchShareInfo", Null, Null)})
    /\ ops = 0 /\ deleted = {}

\* projects and their shares: the owner selects and deletes projects and
\* creates shares, the visitor's page resolves its share
NextProjects ==
    \/ \E c \in InFlight : ServeFetchProjects(c)
    \/ \E c \in InFlight : LoadProjectsDone(c)
    \/ \E p \in ProjectIds : SelectProject(p)
    \/ \E c \in InFlight : ServeFetchResources(c)
    \/ \E c \in InFlight : LoadResourcesDone(c)
    \/ \E p \in ProjectIds : ClickDeleteProject(p)
    \/ \E c \in InFlight : ServeDeleteProject(c)
    \/ \E c \in InFlight : DeleteProjectDone(c)
    \/ OpenShareModal
    \/ ClickCreateShare
    \/ \E c \in InFlight : ServeCreateShare(c)
    \/ \E c \in InFlight : CreateShareDone(c)
    \/ CloseShareModal
    \/ \E c \in InFlight : ServeShareInfo(c)
    \/ \E c \in InFlight : LoadShareInfoDone(c)

SpecProjects == InitBothPages /\ [][NextProjects]_vars

\* the tab shows either page (the router renders App at / and SharedChat at
\* /s/:shareId); the chat of both
InitEitherPage == InitAppPage \/ InitSharedPage

NextPages ==
    \/ NextChat
    \/ NextShared

SpecPages == InitEitherPage /\ [][NextPages]_vars

\* the toasts of a refresh and of its polling loop, with the time they stay
NextToasts ==
    \/ NextNavigation
    \/ \E r \in ResourceIds : ClickRefresh(r)
    \/ \E c \in InFlight : ServeRefreshResource(c)
    \/ \E c \in InFlight : RefreshResourceDone(c)
    \/ \E c \in InFlight : PollTimer(c)
    \/ \E c \in InFlight : CheckStatusDone(c)
    \/ \E r \in ResourceIds : Pipeline(r)
    \/ \E t \in toasts : RemoveToast(t)
    \/ \E t \in toasts : ToastTimeout(t)
    \/ Tick

SpecToasts == InitAppPage /\ [][NextToasts]_vars

\* an answer has arrived with a source of any score, and its SourceCard is
\* about to render
InitCards ==
    /\ InitBackend /\ InitApp /\ InitShared
    /\ bShare = FALSE
    /\ calls = EmptyBag
    /\ ops = 0 /\ deleted = {}
    /\ score \in Scores /\ relevance = <<>>

NextCards == RenderSourceCard

SpecCards == InitCards /\ [][NextCards]_vars

\* ------------------------------------------------------------------ claims
\* the call c is delivered to its continuation in this step
Delivered(c) == CopiesIn(c, calls') = CopiesIn(c, calls) - 1
\* a copy of the call c is issued in this step
Issued(c) == CopiesIn(c, calls') = CopiesIn(c, calls) + 1
\* the backend serves the call c in this step, with outcome st
Served(c, st) ==
    /\ c.st = "sent" /\ Delivered(c)
    /\ \E d \in BagToSet(calls') :
          /\ d.st = st /\ [d EXCEPT !.resp = c.resp, !.st = "sent"] = c
          /\ Issued(d)
RECURSIVE SumCopies(_, _)
\* the number of copies, in the bag cs, of the calls of the set S
SumCopies(cs, S) ==
    IF S = {} THEN 0
    ELSE LET c == CHOOSE c \in S : TRUE
         IN CopiesIn(c, cs) + SumCopies(cs, S \ {c})
\* the polling loops of resource r that are active: a pending poll timer or
\* a poll request in flight
PollingLoops(r) ==
    SumCopies(calls, {c \in InFlight : c.kind = "checkStatus" /\ c.rid = r})
\* the requests of one kind that are outstanding
Outstanding(kind) == SumCopies(calls, {c \in InFlight : c.kind = kind})
\* is resource r, on the backend, a resource of project p?
BelongsTo(r, p) == bResources[r].project_id = p

\* C1: while a project is current, every resource of the displayed list
\* belongs to it
C1_ListOfCurrentProject ==
    currentProject # Null =>
        \A i \in 1..Len(resources) : resources[i].project_id = currentProject

\* C2: the shared page issues no request but GET /api/share/{shareId} and
\* POST /api/share/{shareId}/chat
C2_SharedPageRequests ==
    \A c \in InFlight :
        Request(c) \in {[method |-> "GET", path |-> "/api/share/{shareId}"],
                        [method |-> "POST", path |-> "/api/share/{shareId}/chat"]}

C2_Witness ==
    \E c \in InFlight : c.kind = "sendShareMessage" /\ c.st = "sent"

\* C3: once the delete of R has succeeded on the client, R is never in the
\* list again and no "R is ready" toast is added
C3_DeletedStaysGone ==
    [][\A r \in deleted :
          /\ r \notin Ids(resources')
          /\ Toast("success", "is ready", r) \in toasts'
                => Toast("success", "is ready", r) \in toasts]_vars

\* C4: a successful add or refresh of R starts a poll timer for R; a poll
\* that shows R processing starts the timer again, and a poll that shows R
\* with any other status starts none
C4_PollsWhileProcessing ==
    [][\A c \in InFlight :
          /\ (c.kind \in {"addResource", "refreshResource"} /\ c.st = "ok"
              /\ Delivered(c))
                => Issued(PollCall(c.pid, c.resp.list[1].id))
          /\ (c.kind = "checkStatus" /\ c.st = "ok" /\ Delivered(c)
              /\ c.rid \in Ids(c.resp.list))
                => IF Find(c.resp.list, c.rid).status = "processing"
                   THEN Issued(PollCall(c.pid, c.rid))
                   ELSE \A d \in BagToSet(calls') :
                           d.kind = "checkStatus"
                              => CopiesIn(d, calls') <= CopiesIn(d, calls)]_vars

\* a loop has ended with "is ready" while a poll that shows its resource
\* processing is about to start the timer again
C4_Witness ==
    /\ \E r \in ResourceIds : Toast("success", "is ready", r) \in toasts
    /\ \E c \in InFlight :
          /\ c.kind = "checkStatus" /\ c.st = "ok"
          /\ Find(c.resp.list, c.rid).status = "processing"

\* C5: the client polls on until R has left both pending and processing
C5_PollsUntilTerminal ==
    [][\A c \in InFlight :
          (/\ c.kind = "checkStatus" /\ c.st = "ok" /\ Delivered(c)
           /\ Find(c.resp.list, c.rid).status \in {"pending", "processing"})
             => Issued(PollCall(c.pid, c.rid))]_vars

\* C6: no refresh request is issued for R while R is displayed as pending or
\* processing, or while a refresh or delete request for R is outstanding
C6_NoRefreshWhileRunning ==
    [][\A p \in ProjectIds, r \in ResourceIds :
          Issued(Fetch("refreshResource", p, r))
             => /\ \A i \in Rows(r) :
                      resources[i].status \notin {"pending", "processing"}
                /\ \A c \in InFlight :
                      ~(c.kind \in {"refreshResource", "deleteResource"}
                        /\ c.rid = r)]_vars

\* C7: the resource_ids of a chat request to project P are resources of P
C7_ChatIdsOfProject ==
    \A c \in InFlight :
        (c.kind = "sendMessage" /\ c.body.has_ids)
           => \A r \in Range(c.body.resource_ids) : BelongsTo(r, c.pid)

\* C8: a chat request carries resource_ids exactly when something is
\* selected, and then the selection itself, in its order
C8_RequestIdsAreSelection ==
    [][\A c \in BagToSet(calls') :
          (c.kind = "sendMessage" /\ c.st = "sent" /\ Issued(c))
             => /\ c.body.has_ids = (selectedResources # <<>>)
                /\ c.body.resource_ids = selectedResources]_vars

C8_Witness ==
    \E c \in InFlight :
        /\ c.kind = "sendMessage" /\ c.body.has_ids
        /\ c.body.resource_ids = <<"r2", "r1">>

\* C9: a chat request of the shared page has no resource_ids
C9_SharedChatHasNoIds ==
    \A c \in InFlight :
        c.kind = "sendShareMessage"
           => ~c.body.has_ids /\ c.body.resource_ids = <<>>

C9_Witness ==
    \E c \in InFlight :
        /\ c.kind = "sendShareMessage"
        /\ Len(c.body.conversation_history) > 0

\* C10: a failed chat request appends nothing to the transcript, sets the
\* error message and clears the loading flag
C10_ChatFailure ==
    [][\A c \in InFlight :
          (c.kind = "sendMessage" /\ c.st = "fail" /\ Delivered(c))
             => /\ messages' = messages
                /\ error' # Null
                /\ isLoading' = FALSE]_vars

C10_Witness ==
    /\ error = "Failed to send message" /\ ~isLoading
    /\ Len(messages) > 0 /\ messages[Len(messages)].role = "user"
    /\ \A c \in InFlight : c.kind # "sendMessage"

\* C11: the conversation_history of a chat request, from either page, is the
\* transcript as it stood before the new user message was appended: every
\* earlier message in transcript order, reduced to role and content
C11_HistoryIsEarlierTranscript ==
    [][\A c \in BagToSet(calls') :
          (c.kind \in {"sendMessage", "sendShareMessage"} /\ c.st = "sent"
           /\ Issued(c))
             => LET app == c.kind = "sendMessage"
                    before == IF app THEN messages ELSE sharedMessages
                    after == IF app THEN messages' ELSE sharedMessages'
                    h == c.body.conversation_history
                IN /\ Len(h) = Len(before)
                   /\ \A i \in 1..Len(h) :
                         h[i] = [role |-> before[i].role,
                                 content |-> before[i].content]
                   /\ after = Append(before, UserMessage(c.body.message))]_vars

\* a second question is in flight with the first exchange as its history
C11_Witness ==
    \E c \in InFlight :
        /\ c.kind = "sendMessage" /\ c.body.message = "q2"
        /\ c.body.conversation_history =
              <<[role |-> "user", content |-> "q1"],
                [role |-> "assistant", content |-> "answer"]>>

\* C12: a create-share request for project P is issued only while the
\* displayed resource list shows a ready resource of P
C12_ShareOnlyWithReadyResource ==
    [][\A p \in ProjectIds :
          Issued(Fetch("createShare", p, Null))
             => \E i \in 1..Len(resources) :
                   /\ resources[i].status = "ready"
                   /\ resources[i].project_id = p]_vars

\* C13: a chat request for project P is issued only while the displayed
\* resource list shows a ready resource of P
C13_ChatOnlyWithReadyResource ==
    [][\A c \in BagToSet(calls') :
          (c.kind = "sendMessage" /\ c.st = "sent" /\ Issued(c))
             => \E i \in 1..Len(resources) :
                   /\ resources[i].status = "ready"
                   /\ resources[i].project_id = c.pid]_vars

\* C14: a change of the current project empties the transcript and the
\* selection, and the reply to a chat request sent to another project than
\* the current one is not appended to the transcript
C14_TranscriptOfCurrentProject ==
    [][/\ currentProject' # currentProject
          => messages' = <<>> /\ selectedResources' = <<>>
       /\ \A c \in InFlight :
             (c.kind = "sendMessage" /\ Delivered(c)
              /\ c.pid # currentProject)
                => messages' = messages]_vars

\* C15: a transcript emptied by Clear stays empty until the user sends a
\* message: the reply to a request of the current project that arrives while
\* the transcript is empty (its question was cleared) is not appended
C15_ClearedStaysEmpty ==
    [][\A c \in InFlight :
          (c.kind = "sendMessage" /\ Delivered(c)
           /\ c.pid = currentProject /\ messages = <<>>)
             => messages' = <<>>]_vars

\* C16: a ready Resource has chunk_count > 0 and the Embedding Index holds
\* exactly chunk_count chunks for it
C16_ReadyHasItsChunks ==
    \A r \in ResourceIds :
        bResources[r].status = "ready"
           => bChunkCount[r] > 0 /\ bIndex[r].chunks = bChunkCount[r]

\* a resource added through the client has become ready with two chunks
C16_Witness ==
    /\ bResources["r3"].status = "ready"
    /\ bChunkCount["r3"] = 2 /\ bIndex["r3"].chunks = 2

C18_ProjectDeleteCascades ==
    [][/\ \A p \in ProjectIds \ Range(bProjects') :
             /\ \A r \in ResourceIds : bResources'[r].project_id # p
             /\ p \notin bCreated'
             /\ p = ShareProject => ~bShare'
       /\ \A r \in ResourceIds :
             bResources'[r] = Gone
                => bChunkCount'[r] = 0 /\ bIndex'[r] = NoChunks
       /\ \A c \in BagToSet(calls') :
             (c.kind = "fetchShareInfo" /\ c.st = "ok" /\ Issued(c))
                => ShareProject \in Range(bProjects)]_vars

\* the project of the visited share is deleted, with its resources and the
\* share, and the visitor's resolve request has been refused
C18_Witness ==
    /\ ShareProject \notin Range(bProjects)
    /\ bResources["r1"] = Gone /\ ~bShare
    /\ \E c \in InFlight : c.kind = "fetchShareInfo" /\ c.st = "fail"

\* C19: a delete of a resource that is deleted already fails and deletes
\* nothing, a delete succeeds only for a resource that then is gone with its
\* chunks, and on the client a failed delete sets the error and leaves the
\* resource list and the selection as they were
C19_SecondDeleteIsNotFound ==
    [][\A c \in InFlight :
          c.kind = "deleteResource"
             => /\ Served(c, "ok")
                   => /\ bResources[c.rid].project_id = c.pid
                      /\ bResources'[c.rid] = Gone
                      /\ bIndex'[c.rid] = NoChunks
                /\ (c.st = "sent" /\ Delivered(c) /\ bResources[c.rid] = Gone)
                   => Served(c, "fail") /\ UNCHANGED backendVars
                /\ (c.st = "fail" /\ Delivered(c))
                   => /\ resources' = resources
                      /\ selectedResources' = selectedResources
                      /\ error' # Null]_vars

\* the delete of a selected resource that another delete had removed has
\* failed: the row and the selection are still there
C19_Witness ==
    \E r \in ResourceIds :
        /\ bResources[r] = Gone /\ r \notin deletingIds
        /\ r \in Ids(resources) /\ r \in Range(selectedResources)
        /\ error = "Failed to delete resource"

\* C20: a chat of the shared page that the backend processes after the share
\* was deleted fails, a chat succeeds only while the share exists, and the
\* shared page appends no assistant message for a failed chat
C20_NoChatAfterShareDelete ==
    [][\A c \in InFlight :
          c.kind = "sendShareMessage"
             => /\ Served(c, "ok") => bShare
                /\ (c.st = "sent" /\ Delivered(c) /\ ~bShare)
                   => Served(c, "fail")
                /\ (c.st = "fail" /\ Delivered(c))
                   => /\ sharedMessages' = sharedMessages
                      /\ sharedError' # Null]_vars

\* the share was deleted under a loaded shared page and its chat has failed:
\* the transcript ends with the visitor's question
C20_Witness ==
    /\ ~bShare /\ shareInfo.loaded
    /\ sharedError = "Failed to send message" /\ ~sharedIsLoading
    /\ Len(sharedMessages) > 0
    /\ sharedMessages[Len(sharedMessages)].role = "user"

\* C21: the relevance a SourceCard shows for score s is round(100 s) clamped
\* into 0..100: an integer of 0..100, 0 for every s <= 0, 100 for every
\* s >= 1, and no smaller than the relevance of any smaller score
C21_RelevanceIsClampedPercent ==
    relevance # <<>> =>
        /\ relevance[1] = Max(0, Min(100, MathRound(100 * score, ScoreDen)))
        /\ relevance[1] \in 0..100
        /\ score <= 0 => relevance[1] = 0
        /\ score >= ScoreDen => relevance[1] = 100
        /\ \A t \in Scores :
              t <= score => getRelevancePercent(t) <= relevance[1]

\* the card of a source with score 0.125 shows 13: the tie 12.5 goes up
C21_Witness == score = 25 /\ relevance = <<13>>

\* C22: the displayed resource list never holds two entries with the same
\* resource id
C22_NoDuplicateRows ==
    \A i, j \in 1..Len(resources) :
        resources[i].id = resources[j].id => i = j

\* C23: the current project is none or a project of the client's project
\* list
C23_CurrentProjectIsListed ==
    currentProject = Null \/ currentProject \in Range(projects)

\* C24: every selected id is the id of a row of the displayed resource list
\* whose status is ready
C24_SelectionIsReadyRows ==
    \A r \in Range(selectedResources) :
        \E i \in Rows(r) : resources[i].status = "ready"

\* C25: for each resource at most one polling loop is active
C25_OnePollingLoop ==
    \A r \in ResourceIds : PollingLoops(r) <= 1

\* C26: closing the share modal resets its result and its error, and
\* whenever the modal is opened it shows the creation form: no share result
\* and no error of an earlier use
C26_ModalOpensFresh ==
    [][/\ (showShareModal /\ ~showShareModal')
          => shareResult' = Null /\ shareModalError' = Null
       /\ (~showShareModal /\ showShareModal')
          => shareResult' = Null /\ shareModalError' = Null]_vars

\* C27: a toast is on the list for no more than 4000 ms after it was added:
\* neither a render of the page nor anything else postpones its removal
C27_ToastGoneAfter4s ==
    \A t \in toasts : toastAge[t] <= ToastMs

\* C28: on each page at most one chat request is outstanding, and the
\* page's loading flag is set exactly while one is: set when the request is
\* sent, cleared when it completes with success or failure
C28_OneChatRequest ==
    /\ Outstanding("sendMessage") <= 1
    /\ isLoading = (Outstanding("sendMessage") = 1)
    /\ Outstanding("sendShareMessage") <= 1
    /\ sharedIsLoading = (Outstanding("sendShareMessage") = 1)

\* after a first exchange has completed a second request is outstanding
C28_Witness ==
    /\ isLoading /\ Len(messages) = 3
    /\ messages[2].role = "assistant"
    /\ \E c \in InFlight : c.kind = "sendMessage" /\ c.st = "fail"

\* C29: when the delete of a project has succeeded, the current project
\* becomes the first of the remaining projects of the list, or none, if the
\* deleted project was current, and stays as it is otherwise; a failed delete
\* changes neither the project list nor the current project
C29_DeleteMovesCurrent ==
    [][\A c \in InFlight :
          (c.kind = "deleteProject" /\ Delivered(c))
             => /\ c.st = "ok"
                   => currentProject' =
                         IF c.pid # currentProject THEN currentProject
                         ELSE IF projects' # <<>> THEN projects'[1]
                         ELSE Null
                /\ c.st = "fail"
                   => projects' = projects /\ currentProject' = currentProject
      ]_vars

====
